---- MODULE Spec2Model ----
(***************************************************************************)
(* Walls of pyroomacoustics' libroom (wall.hpp / wall.cpp): polygons with  *)
(* and without holes, the walls built on them, and the queries a ray       *)
(* tracer makes of a wall.                                                  *)
(*                                                                          *)
(* Numbers.  Coordinates are integers on a grid whose unit is libroom_eps. *)
(* The `float` arithmetic of the Wall<D> utilities (reflect, side) is      *)
(* modelled by a small binary floating-point format: every integer of      *)
(* magnitude below 2^MantBits is representable, above that only multiples  *)
(* of a power of two are, and each arithmetic operation rounds its exact   *)
(* result to the nearest representable value (ties to even).  Acoustic     *)
(* coefficients are fixed-point numbers, CoefOne standing for 1.0.         *)
(* The geometry primitives of geometry.hpp and Eigen's SVD are not part of *)
(* wall.cpp; they are modelled exactly (rational arithmetic) from their    *)
(* interface.                                                               *)
(***************************************************************************)
EXTENDS Integers, Sequences, FiniteSets, TLC

\* ------------------------------------------------------------------ bounds
\* significand width of the modelled float format
MantBits == 3
\* largest number of frequency bands of a coefficient array
MaxBands == 2
\* largest number of holes handed to a Wall3D constructor
MaxHoles == 2
\* fixed-point representation of the coefficient 1.0
CoefOne == 16

\* libroom_eps in grid units (the grid unit is the tolerance)
libroom_eps == 1

\* intersection status codes
WALL_ISECT_NONE == -1
WALL_ISECT_VALID == 0
WALL_ISECT_VALID_ENDPT == 1
WALL_ISECT_VALID_BNDRY == 2
ENDPOINT_BOUNDARY == 3

\* ------------------------------------------------------- integer helpers
Abs(x) == IF x < 0 THEN -x ELSE x

Sign(x) == IF x > 0 THEN 1 ELSE IF x < 0 THEN -1 ELSE 0

Min(a, b) == IF a < b THEN a ELSE b

Max(a, b) == IF a > b THEN a ELSE b

\* F(v), with v evaluated once however often F uses it
Bind(v, F(_)) == CHOOSE r \in { F(x) : x \in {v} } : TRUE

RECURSIVE GcdNat(_, _)
GcdNat(a, b) == IF b = 0 THEN a ELSE GcdNat(b, a % b)

Gcd(a, b) == GcdNat(Abs(a), Abs(b))

RECURSIVE BitOr(_, _)
\* bitwise or of two naturals (the |= of SimplePolygon::intersection)
BitOr(a, b) ==
    IF a = 0 THEN b
    ELSE IF b = 0 THEN a
    ELSE 2 * BitOr(a \div 2, b \div 2) + Max(a % 2, b % 2)

\* ------------------------------------------------------------ float model
RECURSIVE FloatStep(_)
\* spacing of the representable values around magnitude m
FloatStep(m) == IF m < 2 ^ MantBits THEN 1 ELSE 2 * FloatStep(m \div 2)

\* magnitude m rounded to a multiple of s, ties to the even multiple
RoundToStep(m, s) ==
    LET q == m \div s
        r == m % s
    IN  IF 2 * r < s THEN q * s
        ELSE IF 2 * r > s THEN (q + 1) * s
        ELSE IF q % 2 = 0 THEN q * s ELSE (q + 1) * s

\* the float nearest to the exact value x
Fl(x) == Sign(x) * RoundToStep(Abs(x), FloatStep(Abs(x)))

FAdd(a, b) == Fl(a + b)

FSub(a, b) == Fl(a - b)

FMul(a, b) == Fl(a * b)

\* -------------------------------------------------------------- vectors
\* A vector is a tuple of D integers, D = 2 or 3.
VAdd(a, b) == [i \in DOMAIN a |-> FAdd(a[i], b[i])]

VSub(a, b) == [i \in DOMAIN a |-> FSub(a[i], b[i])]

VScale(k, a) == [i \in DOMAIN a |-> FMul(k, a[i])]

RECURSIVE DotUpTo(_, _, _)
\* a.b summed left to right over the first n coordinates
DotUpTo(a, b, n) ==
    IF n = 0 THEN 0
    ELSE IF n = 1 THEN FMul(a[1], b[1])
    ELSE FAdd(DotUpTo(a, b, n - 1), FMul(a[n], b[n]))

Dot(a, b) == DotUpTo(a, b, Len(a))

\* exact (unrounded) vector operations, used by the geometry primitives
XSub(a, b) == [i \in DOMAIN a |-> a[i] - b[i]]

XDot(a, b) ==
    IF Len(a) = 2 THEN a[1] * b[1] + a[2] * b[2]
    ELSE a[1] * b[1] + a[2] * b[2] + a[3] * b[3]

\* cross product of two 3D vectors
cross(a, b) ==
    << a[2] * b[3] - a[3] * b[2],
       a[3] * b[1] - a[1] * b[3],
       a[1] * b[2] - a[2] * b[1] >>

\* ----------------------------------------------------- external: Eigen SVD
\* The corner matrices used here have mutually orthogonal rows once centred
\* on the origin, so the left singular vectors are the coordinate axes and the
\* singular value of axis k is the length of row k.  The order of equal
\* singular values and the signs of the singular vectors are the library's
\* choice.
Centred(corners, origin) == [i \in DOMAIN corners |-> XSub(corners[i], origin)]

RECURSIVE RowEnergyUpTo(_, _, _)
RowEnergyUpTo(M, k, n) ==
    IF n = 0 THEN 0 ELSE RowEnergyUpTo(M, k, n - 1) + M[n][k] * M[n][k]

\* squared singular value belonging to axis k
RowEnergy(M, k) == RowEnergyUpTo(M, k, Len(M))

RECURSIVE RowProductUpTo(_, _, _, _)
RowProductUpTo(M, j, k, n) ==
    IF n = 0 THEN 0 ELSE RowProductUpTo(M, j, k, n - 1) + M[n][j] * M[n][k]

\* the rows of M are mutually orthogonal: M * M^T is diagonal
RowsOrthogonal(M) ==
    \A j, k \in 1..3 : j < k => RowProductUpTo(M, j, k, Len(M)) = 0

Permutations3 ==
    { o \in [1..3 -> 1..3] : \A i, j \in 1..3 : i # j => o[i] # o[j] }

\* the decompositions JacobiSVD may return for M: singular values descending
SvdChoices(M) ==
    { [order |-> o, s1 |-> a, s2 |-> b] :
        o \in { q \in Permutations3 :
                  /\ RowEnergy(M, q[1]) >= RowEnergy(M, q[2])
                  /\ RowEnergy(M, q[2]) >= RowEnergy(M, q[3]) },
        a \in {-1, 1}, b \in {-1, 1} }

\* column c of matrixU: the signed unit vector of the c-th axis in order
UnitAxis(k, s) == [i \in 1..3 |-> IF i = k THEN s ELSE 0]

\* singularValues().coeff(2) > tol, on squared values
SmallestSingularExceeds(M, svd, tol) == RowEnergy(M, svd.order[3]) > tol * tol

\* ------------------------------------------- external: geometry primitives
RECURSIVE TrapeziumSum(_, _)
TrapeziumSum(fc, c1) ==
    IF c1 > Len(fc) THEN 0
    ELSE LET c2 == IF c1 = Len(fc) THEN 1 ELSE c1 + 1
         IN  TrapeziumSum(fc, c1 + 1)
               - (fc[c2][1] - fc[c1][1]) * (fc[c2][2] + fc[c1][2])

\* signed area of a 2D polygon, in half grid squares (twice the area):
\* positive when the corners run counter-clockwise
area_2d_polygon(fc) == TrapeziumSum(fc, 1)

\* A point with rational coordinates: numerators n over the denominator d > 0.
\* d = 0 marks a buffer nothing has been written to.
NoPoint == [n |-> <<0, 0, 0>>, d |-> 0]

Rational(n, d) ==
    Bind(Gcd(Gcd(Gcd(n[1], n[2]), n[3]), d), LAMBDA g0 :
        LET g  == IF g0 = 0 THEN 1 ELSE g0
            sg == IF d < 0 THEN -1 ELSE 1
        IN  [n |-> [i \in 1..3 |-> sg * (n[i] \div g)], d |-> sg * (d \div g)])

\* segment a1-a2 against the plane through p with the given normal:
\* -1 none (the buffer is left alone), 0 valid, 1 valid at an endpoint
intersection_3d_segment_plane(a1, a2, p, normal, buffer) ==
    LET u     == XSub(a2, a1)
        denom == XDot(normal, u)
        num   == XDot(normal, XSub(p, a1))
        hit   == /\ denom # 0
                 /\ IF denom > 0 THEN 0 <= num /\ num <= denom
                                 ELSE denom <= num /\ num <= 0
    IN  IF ~hit THEN [ret |-> -1, point |-> buffer]
        ELSE [ret   |-> IF num = 0 \/ num = denom THEN 1 ELSE 0,
              point |-> Rational([i \in 1..3 |-> a1[i] * denom + num * u[i]],
                                 denom)]

\* edge c of the polygon pc, as a pair of corners
EdgeOf(pc, c) == << pc[c], pc[IF c = Len(pc) THEN 1 ELSE c + 1] >>

Cross2(a, b, p) ==
    (b[1] - a[1]) * (p[2] - a[2]) - (b[2] - a[2]) * (p[1] - a[1])

OnEdge(e, p) ==
    /\ Cross2(e[1], e[2], p) = 0
    /\ Min(e[1][1], e[2][1]) <= p[1] /\ p[1] <= Max(e[1][1], e[2][1])
    /\ Min(e[1][2], e[2][2]) <= p[2] /\ p[2] <= Max(e[1][2], e[2][2])

\* the edge crosses the half line from p towards +x
CrossesRay(e, p) ==
    /\ (e[1][2] > p[2]) # (e[2][2] > p[2])
    /\ IF e[2][2] > e[1][2] THEN Cross2(e[1], e[2], p) > 0
                            ELSE Cross2(e[1], e[2], p) < 0

\* point p against the polygon pc: -1 outside, 0 inside, 1 on the boundary
is_inside_2d_polygon(p, pc) ==
    IF \E c \in 1..Len(pc) : OnEdge(EdgeOf(pc, c), p) THEN 1
    ELSE IF Cardinality({ c \in 1..Len(pc) : CrossesRay(EdgeOf(pc, c), p) }) % 2 = 1
         THEN 0
         ELSE -1

\* ------------------------------------------------------------- polygons
\* what a constructor that threw leaves behind: no object
NoPolygon ==
    [thrown |-> TRUE, corners |-> <<>>, origin |-> <<>>, basis |-> <<>>,
     flat_corners |-> <<>>, normal |-> <<>>]

\* CornersNotPlanar with ">=" where the code has ">"
CornersNotPlanarAtEps(M, svd) ==
    RowEnergy(M, svd.order[3]) >= libroom_eps * libroom_eps

\* the planarity check of the SimplePolygon constructor
CornersNotPlanar(M, svd) == SmallestSingularExceeds(M, svd, libroom_eps)

\* basis^T * (corners - origin)
FlatCorners(basis, M) ==
    [i \in DOMAIN M |-> << XDot(basis[1], M[i]), XDot(basis[2], M[i]) >>]

\* basis.rowwise().reverseInPlace(): the two basis vectors change places
SwapBasis(basis) == << basis[2], basis[1] >>

\* SwapFlat that leaves the coordinates where they are
SwapFlatKept(fc) == fc

\* flat_corners.colwise().reverseInPlace(): in every column the two
\* coordinates change places
SwapFlat(fc) == [i \in DOMAIN fc |-> << fc[i][2], fc[i][1] >>]

\* the orientation fix-up and the normal that end the constructor
OrientedPolygon(corners, origin, basis0, flat0) ==
    Bind(area_2d_polygon(flat0), LAMBDA a :
        LET basis == IF a < 0 THEN SwapBasis(basis0) ELSE basis0
            flat  == IF a < 0 THEN SwapFlat(flat0) ELSE flat0
        IN  [thrown |-> FALSE, corners |-> corners, origin |-> origin,
             basis |-> basis, flat_corners |-> flat,
             normal |-> cross(basis[1], basis[2])])

\* SimplePolygon::SimplePolygon(_corners, _origin), with the decomposition svd
\* that Eigen returned for the centred corners
SimplePolygon(corners, origin, svd) ==
    Bind(Centred(corners, origin), LAMBDA M :
        IF CornersNotPlanar(M, svd) THEN NoPolygon
        ELSE Bind(<< UnitAxis(svd.order[1], svd.s1),
                     UnitAxis(svd.order[2], svd.s2) >>, LAMBDA basis0 :
                 Bind(FlatCorners(basis0, M), LAMBDA flat0 :
                     OrientedPolygon(corners, origin, basis0, flat0))))

\* SimplePolygon(_corners): the origin is the first corner
SimplePolygonAtFirstCorner(corners, svd) == SimplePolygon(corners, corners[1], svd)

RECURSIVE BuildHoles(_, _, _)
\* the loop of PolygonWithHole's constructor, from hole i on; a hole whose
\* constructor throws ends it
BuildHoles(holes, svds, i) ==
    IF i > Len(holes) THEN [thrown |-> FALSE, polys |-> <<>>]
    ELSE Bind(SimplePolygonAtFirstCorner(holes[i], svds[i]), LAMBDA h :
            IF h.thrown THEN [thrown |-> TRUE, polys |-> <<>>]
            ELSE Bind(BuildHoles(holes, svds, i + 1), LAMBDA rest :
                    [thrown |-> rest.thrown,
                     polys  |-> IF rest.thrown THEN <<>> ELSE <<h>> \o rest.polys]))

NoGeometry ==
    [thrown |-> TRUE, kind |-> "none", outer_polygon |-> NoPolygon,
     inner_polygons |-> <<>>]

\* PolygonWithHole::PolygonWithHole(_corners, _holes)
PolygonWithHole(corners, holes, svd, svds) ==
    Bind(SimplePolygonAtFirstCorner(corners, svd), LAMBDA outer :
        IF outer.thrown THEN NoGeometry
        ELSE Bind(BuildHoles(holes, svds, 1), LAMBDA inner :
                IF inner.thrown THEN NoGeometry
                ELSE [thrown |-> FALSE, kind |-> "PolygonWithHole",
                      outer_polygon |-> outer, inner_polygons |-> inner.polys]))

\* Polygon::make_polygon(corners, holes)
make_polygon(corners, holes, svd, svds) ==
    IF Len(holes) > 0 THEN PolygonWithHole(corners, holes, svd, svds)
    ELSE Bind(SimplePolygonAtFirstCorner(corners, svd), LAMBDA sp :
            IF sp.thrown THEN NoGeometry
            ELSE [thrown |-> FALSE, kind |-> "SimplePolygon",
                  outer_polygon |-> sp, inner_polygons |-> <<>>])

\* SimplePolygon's copy constructor
SimplePolygonCopy(sp) ==
    [thrown |-> FALSE, corners |-> sp.corners, origin |-> sp.origin,
     basis |-> sp.basis, flat_corners |-> sp.flat_corners,
     normal |-> sp.normal]

\* Polygon::make_polygon(p): a copy of p of p's own class
make_polygon_copy(pg) ==
    IF pg.kind = "PolygonWithHole"
    THEN [thrown |-> FALSE, kind |-> "PolygonWithHole",
          outer_polygon |-> SimplePolygonCopy(pg.outer_polygon),
          inner_polygons |-> [i \in DOMAIN pg.inner_polygons |->
                                SimplePolygonCopy(pg.inner_polygons[i])]]
    ELSE [thrown |-> FALSE, kind |-> "SimplePolygon",
          outer_polygon |-> SimplePolygonCopy(pg.outer_polygon),
          inner_polygons |-> << >>]

\* ----------------------------------------------------------- intersection
\* CombineStatus with "ret = 2" where the code has "ret |= 2"
CombineStatusAssign(ret1, ret2) ==
    IF ret1 = -1 THEN -1
    ELSE IF ret2 < 0 THEN -1
    ELSE IF ret2 = 1 THEN 2
    ELSE IF ret1 = 1 THEN 1 ELSE 0

\* the status SimplePolygon::intersection builds from the results of the two
\* primitives (ret2 is only looked at when ret1 is a hit)
CombineStatus(ret1, ret2) ==
    IF ret1 = -1 THEN -1
    ELSE IF ret2 < 0 THEN -1
    ELSE BitOr(IF ret1 = 1 THEN 1 ELSE 0, IF ret2 = 1 THEN 2 ELSE 0)

\* the value standing for "is_inside_2d_polygon was not called"
NotCalled == -(2 * 2)

\* the second half of SimplePolygon::intersection: the point pl.point of the
\* plane is projected into the basis and looked up in flat_corners (both
\* scaled by the point's denominator)
ProjectAndClassify(sp, pl) ==
    IF pl.ret = -1
    THEN [ret |-> CombineStatus(pl.ret, NotCalled), point |-> pl.point,
          ret1 |-> pl.ret, ret2 |-> NotCalled]
    ELSE Bind([i \in 1..3 |-> pl.point.n[i] - pl.point.d * sp.origin[i]], LAMBDA rel :
         Bind(<< XDot(sp.basis[1], rel), XDot(sp.basis[2], rel) >>, LAMBDA flat :
         Bind([i \in DOMAIN sp.flat_corners |->
                 << pl.point.d * sp.flat_corners[i][1],
                    pl.point.d * sp.flat_corners[i][2] >>], LAMBDA fcs :
         Bind(is_inside_2d_polygon(flat, fcs), LAMBDA ret2 :
            [ret |-> CombineStatus(pl.ret, ret2), point |-> pl.point,
             ret1 |-> pl.ret, ret2 |-> ret2]))))

\* SimplePolygon::intersection(p1, p2, intersection)
SimplePolygonIntersection(sp, p1, p2, buffer) ==
    Bind(intersection_3d_segment_plane(p1, p2, sp.origin, sp.normal, buffer),
         LAMBDA pl : ProjectAndClassify(sp, pl))

\* HoleVerdict with "ret2 == 0" where the code has "ret2 == 0 || ret2 == 1"
HoleVerdictInteriorOnly(ret2) ==
    IF ret2 = 0 THEN [done |-> TRUE, ret |-> -1]
    ELSE IF ret2 >= 2 THEN [done |-> TRUE, ret |-> ret2]
    ELSE [done |-> FALSE, ret |-> ret2]

\* HoleVerdict returning WALL_ISECT_VALID_BNDRY where the code returns ret2
HoleVerdictPlainBoundary(ret2) ==
    IF ret2 = 0 \/ ret2 = 1 THEN [done |-> TRUE, ret |-> -1]
    ELSE IF ret2 >= 2 THEN [done |-> TRUE, ret |-> WALL_ISECT_VALID_BNDRY]
    ELSE [done |-> FALSE, ret |-> ret2]

\* what PolygonWithHole::intersection does on the status ret2 of a hole:
\* done with the status to return, or not done (on to the next hole)
HoleVerdict(ret2) ==
    IF ret2 = 0 \/ ret2 = 1 THEN [done |-> TRUE, ret |-> -1]
    ELSE IF ret2 >= 2 THEN [done |-> TRUE, ret |-> ret2]
    ELSE [done |-> FALSE, ret |-> ret2]

\* FallThrough returning "no intersection" when no hole intercepts
FallThroughNone(ret1) == -1

\* what PolygonWithHole::intersection returns after the loop: the outer
\* polygon's status
FallThrough(ret1) == ret1

RECURSIVE HoleLoop(_, _, _, _, _, _, _)
\* the for loop over inner_polygons, from hole i on; trace lists the holes
\* consulted so far with the status each reported
HoleLoop(inner, i, p1, p2, buffer, ret1, trace) ==
    IF i > Len(inner)
    THEN [ret |-> FallThrough(ret1), point |-> buffer, trace |-> trace]
    ELSE Bind(SimplePolygonIntersection(inner[i], p1, p2, buffer), LAMBDA h :
         Bind(Append(trace, [hole |-> i, ret |-> h.ret]), LAMBDA tr :
            IF HoleVerdict(h.ret).done
            THEN [ret |-> HoleVerdict(h.ret).ret, point |-> h.point, trace |-> tr]
            ELSE HoleLoop(inner, i + 1, p1, p2, h.point, ret1, tr)))

\* OuterDecides without the test "ret1 >= 2"
OuterDecidesNoneOnly(ret1) == ret1 = -1

\* the outer polygon's status ends the call: no intersection, or a hit on
\* the outer boundary
OuterDecides(ret1) == ret1 = -1 \/ ret1 >= 2

\* PolygonWithHole::intersection(p1, p2, intersection)
PolygonWithHoleIntersection(pg, p1, p2, buffer) ==
    Bind(SimplePolygonIntersection(pg.outer_polygon, p1, p2, buffer), LAMBDA o :
        IF OuterDecides(o.ret)
        THEN [ret |-> o.ret, point |-> o.point, trace |-> <<>>, outer |-> o]
        ELSE Bind(HoleLoop(pg.inner_polygons, 1, p1, p2, o.point, o.ret, <<>>),
                  LAMBDA l : [ret |-> l.ret, point |-> l.point,
                              trace |-> l.trace, outer |-> o]))

\* the virtual call wall_geometry->intersection(p1, p2, intersection)
PolygonIntersection(pg, p1, p2, buffer) ==
    IF pg.kind = "PolygonWithHole"
    THEN PolygonWithHoleIntersection(pg, p1, p2, buffer)
    ELSE Bind(SimplePolygonIntersection(pg.outer_polygon, p1, p2, buffer),
              LAMBDA o : [ret |-> o.ret, point |-> o.point, trace |-> <<>>,
                          outer |-> o])

\* ---------------------------------------------------------------- walls
\* the value of a coefficient that is not a number
NaN == -(CoefOne * CoefOne)

\* sqrtf on fixed-point coefficients: the representable value nearest to the
\* square root, NaN for a negative argument
Sqrtf(x) ==
    IF x < 0 THEN NaN
    ELSE CHOOSE t \in 0..(CoefOne * Max(x, 1)) :
            /\ t = 0 \/ (2 * t - 1) * (2 * t - 1) <= 4 * x * CoefOne
            /\ 4 * x * CoefOne < (2 * t + 1) * (2 * t + 1)

\* energy_reflection = 1.f - absorption
EnergyReflection(absorption) ==
    [i \in DOMAIN absorption |-> CoefOne - absorption[i]]

\* Transmission without the square root
TransmissionNoSqrt(energy_reflection) == energy_reflection

\* transmission = energy_reflection.sqrt()
Transmission(energy_reflection) ==
    [i \in DOMAIN energy_reflection |-> Sqrtf(energy_reflection[i])]

\* CoefficientsMismatch that only rejects a shorter absorption array
CoefficientsShorter(absorption, scatter) == Len(absorption) < Len(scatter)

\* the check that ends Wall<D>::init()
CoefficientsMismatch(absorption, scatter) == Len(absorption) # Len(scatter)

\* Wall<D>::init()
init(absorption, scatter) ==
    Bind(EnergyReflection(absorption), LAMBDA er :
        [thrown |-> CoefficientsMismatch(absorption, scatter),
         energy_reflection |-> er, transmission |-> Transmission(er)])

NoWall ==
    [dim |-> 0, corners |-> <<>>, absorption |-> <<>>, scatter |-> <<>>,
     transmission |-> <<>>, energy_reflection |-> <<>>, origin |-> <<>>,
     normal |-> <<>>, wall_geometry |-> NoGeometry]

\* v.normalized() for a vector along a coordinate axis (every Wall2D of the
\* catalogue lies along an axis); Eigen returns a zero vector unchanged
Normalized(v) ==
    CASE v[1] = 0 \/ v[2] = 0 -> [i \in DOMAIN v |-> Sign(v[i])]

\* Wall2D::Wall2D(_corners, _absorption, _scatter, _name)
Wall2D(corners, absorption, scatter) ==
    Bind(init(absorption, scatter), LAMBDA b :
        IF b.thrown THEN [err |-> "coefficients", wall |-> NoWall]
        ELSE [err |-> "none",
              wall |-> [dim |-> 2, corners |-> corners,
                        absorption |-> absorption, scatter |-> scatter,
                        transmission |-> b.transmission,
                        energy_reflection |-> b.energy_reflection,
                        origin |-> corners[1],
                        normal |-> Normalized(
                            << FSub(corners[2][2], corners[1][2]),
                               FSub(corners[1][1], corners[2][1]) >>),
                        wall_geometry |-> NoGeometry]])

\* a member that was default-initialised and never assigned: a fixed-size
\* Eigen matrix then holds whatever was in its storage
Indeterminate == "indeterminate"

\* a default-constructed Eigen matrix of dynamic size: no columns
EmptyMatrix == << >>

\* the body of Wall3D's constructor: origin and normal are copied from the
\* polygon; the members basis and flat_corners are declared and not assigned
Wall3DFrom(corners, absorption, scatter, b, g) ==
    [dim |-> 3, corners |-> corners,
     absorption |-> absorption, scatter |-> scatter,
     transmission |-> b.transmission,
     energy_reflection |-> b.energy_reflection,
     origin |-> g.outer_polygon.origin,
     normal |-> g.outer_polygon.normal,
     basis |-> Indeterminate,
     flat_corners |-> EmptyMatrix,
     wall_geometry |-> g]

\* Wall3D::Wall3D(_corners, _holes, _absorption, _scatter, _name): the base
\* class Wall<3> is constructed first, then wall_geometry
Wall3D(corners, holes, absorption, scatter, svd, svds) ==
    Bind(init(absorption, scatter), LAMBDA b :
        IF b.thrown THEN [err |-> "coefficients", wall |-> NoWall]
        ELSE Bind(make_polygon(corners, holes, svd, svds), LAMBDA g :
                IF g.thrown THEN [err |-> "geometry", wall |-> NoWall]
                ELSE [err |-> "none",
                      wall |-> Wall3DFrom(corners, absorption, scatter, b, g)]))

\* Wall3D's copy constructor: Wall<3> is built from w's corners and
\* coefficients, basis and flat_corners are copied from w, the polygon is
\* copied, origin and normal are taken from the copy
Wall3DCopy(w) ==
    Bind(init(w.absorption, w.scatter), LAMBDA b :
        IF b.thrown THEN [err |-> "coefficients", wall |-> NoWall]
        ELSE Bind(make_polygon_copy(w.wall_geometry), LAMBDA g :
                [err |-> "none",
                 wall |-> [dim |-> 3, corners |-> w.corners,
                           absorption |-> w.absorption, scatter |-> w.scatter,
                           transmission |-> b.transmission,
                           energy_reflection |-> b.energy_reflection,
                           origin |-> g.outer_polygon.origin,
                           normal |-> g.outer_polygon.normal,
                           basis |-> w.basis,
                           flat_corners |-> w.flat_corners,
                           wall_geometry |-> g]]))

\* DistanceWall2p with "p - origin" where the code has "origin - p"
DistanceWall2pFromOrigin(w, p) == Dot(w.normal, VSub(p, w.origin))

\* float distance_wall2p = normal.adjoint() * (origin - p)
DistanceWall2p(w, p) == Dot(w.normal, VSub(w.origin, p))

\* ReflectedPoint without the factor 2: the foot of p on the wall
ReflectedPointNoDouble(w, p, d) == VAdd(p, VScale(d, w.normal))

\* p_reflected = p + 2 * distance_wall2p * normal
ReflectedPoint(w, p, d) == VAdd(p, VScale(FMul(2, d), w.normal))

\* ReflectSign with ">=" and "<=" where the code has ">" and "<"
ReflectSignInclusive(d) ==
    IF d >= libroom_eps THEN 1
    ELSE IF d <= -libroom_eps THEN -1
    ELSE 0

\* the value Wall<D>::reflect returns
ReflectSign(d) ==
    IF d > libroom_eps THEN 1
    ELSE IF d < -libroom_eps THEN -1
    ELSE 0

\* Wall<D>::reflect(p, p_reflected)
reflect(w, p) ==
    Bind(DistanceWall2p(w, p), LAMBDA d :
        [ret |-> ReflectSign(d), p_reflected |-> ReflectedPoint(w, p, d), d |-> d])

\* SimplePolygon::area(): the float area_2d_polygon returns (twice the area)
SimplePolygonArea(sp) == Fl(area_2d_polygon(sp.flat_corners))

\* InnerAreas with "inner_areas = ..." where the code has "inner_areas += ..."
InnerAreasLastOnly(inner, n) ==
    IF n = 0 THEN 0 ELSE SimplePolygonArea(inner[n])

RECURSIVE InnerAreas(_, _)
\* inner_areas after the first n rounds of the loop of PolygonWithHole::area()
InnerAreas(inner, n) ==
    IF n = 0 THEN 0
    ELSE FAdd(InnerAreas(inner, n - 1), SimplePolygonArea(inner[n]))

\* PolygonWithHole::area()
PolygonWithHoleArea(pg) ==
    FSub(SimplePolygonArea(pg.outer_polygon),
         InnerAreas(pg.inner_polygons, Len(pg.inner_polygons)))

\* wall_geometry->area(): the virtual call
PolygonArea(pg) ==
    IF pg.kind = "PolygonWithHole" THEN PolygonWithHoleArea(pg)
    ELSE SimplePolygonArea(pg.outer_polygon)

\* Wall3D::area()
Wall3DArea(w) == PolygonArea(w.wall_geometry)

RECURSIVE AbsDiffSum(_, _, _)
\* (corners - other).cwiseAbs().sum() over the first n corners, in float
AbsDiffSum(a, b, n) ==
    IF n = 0 THEN 0
    ELSE FAdd(AbsDiffSum(a, b, n - 1),
              FAdd(FAdd(Abs(FSub(a[n][1], b[n][1])), Abs(FSub(a[n][2], b[n][2]))),
                   Abs(FSub(a[n][3], b[n][3]))))

\* the two tests of SimplePolygon::same_as on the corner matrices
CornersSame(a, b) ==
    IF Len(a) # Len(b) THEN FALSE ELSE AbsDiffSum(a, b, Len(a)) = 0

\* SimplePolygon::same_as(that): the cast to SimplePolygon fails on a
\* PolygonWithHole
SimplePolygonSameAs(sp, that) ==
    IF that.kind = "SimplePolygon"
    THEN CornersSame(sp.corners, that.outer_polygon.corners)
    ELSE FALSE

\* std::make_shared<SimplePolygon>(sp)
SharedSimplePolygon(sp) ==
    [thrown |-> FALSE, kind |-> "SimplePolygon", outer_polygon |-> sp,
     inner_polygons |-> << >>]

\* PolygonWithHoleSameAs looking for every hole anywhere in the other list
PolygonWithHoleSameAsAnyOrder(pg, that) ==
    IF that.kind = "PolygonWithHole"
    THEN /\ SimplePolygonSameAs(pg.outer_polygon,
                                SharedSimplePolygon(that.outer_polygon))
         /\ Len(pg.inner_polygons) = Len(that.inner_polygons)
         /\ \A i \in DOMAIN pg.inner_polygons :
              \E j \in DOMAIN that.inner_polygons :
                SimplePolygonSameAs(pg.inner_polygons[i],
                                    SharedSimplePolygon(that.inner_polygons[j]))
    ELSE FALSE

\* PolygonWithHole::same_as(that)
PolygonWithHoleSameAs(pg, that) ==
    IF that.kind = "PolygonWithHole"
    THEN IF ~SimplePolygonSameAs(pg.outer_polygon,
                                 SharedSimplePolygon(that.outer_polygon))
         THEN FALSE
         ELSE IF Len(pg.inner_polygons) # Len(that.inner_polygons)
         THEN FALSE
         ELSE \A i \in DOMAIN pg.inner_polygons :
                SimplePolygonSameAs(pg.inner_polygons[i],
                                    SharedSimplePolygon(that.inner_polygons[i]))
    ELSE FALSE

\* wall_geometry->same_as(that): the virtual call
PolygonSameAs(pg, that) ==
    IF pg.kind = "PolygonWithHole" THEN PolygonWithHoleSameAs(pg, that)
    ELSE SimplePolygonSameAs(pg.outer_polygon, that)

\* Wall3D::same_as(that)
Wall3DSameAs(w, that) ==
    IF that.dim # 3 THEN FALSE
    ELSE PolygonSameAs(w.wall_geometry, that.wall_geometry)

\* float ip = (p - origin).adjoint() * normal
InnerProduct(w, p) == Dot(VSub(p, w.origin), w.normal)

\* SideSign with ">=" where the code has ">"
SideSignUpperInclusive(ip) ==
    IF ip >= libroom_eps THEN 1
    ELSE IF ip < -libroom_eps THEN -1
    ELSE 0

\* the value Wall<D>::side returns
SideSign(ip) ==
    IF ip > libroom_eps THEN 1
    ELSE IF ip < -libroom_eps THEN -1
    ELSE 0

\* Wall<D>::side(p)
side(w, p) ==
    Bind(InnerProduct(w, p), LAMBDA ip : [ret |-> SideSign(ip), ip |-> ip])

\* Wall<D>::intersects(p1, p2) on a Wall3D: intersection with a local buffer
intersects(w, p1, p2) == PolygonIntersection(w.wall_geometry, p1, p2, NoPoint).ret

\* Wall<D>::normal_reflect(incident)
normal_reflect(w, incident) ==
    VSub(incident, VScale(Dot(incident, w.normal), VScale(2, w.normal)))

\* Wall<D>::normal_reflect(start, hit_point, length), for hit_point - start
\* along a coordinate axis
normal_reflect_from(w, start, hit_point, length) ==
    Bind(Normalized(VSub(hit_point, start)), LAMBDA incident :
        VAdd(hit_point, VScale(length, normal_reflect(w, incident))))

\* p.norm() for p along a coordinate axis
AxisNorm(p) == IF Len(p) = 2 THEN Abs(p[1]) + Abs(p[2])
               ELSE Abs(p[1]) + Abs(p[2]) + Abs(p[3])

\* Wall<D>::cosine_angle(p) for p along a coordinate axis or zero: 0 / 0 is
\* not a number
cosine_angle(w, p) ==
    IF AxisNorm(p) = 0 THEN NaN ELSE Dot(p, w.normal) \div AxisNorm(p)

\* AfterQuery for a normal_reflect that turned the wall's normal around
AfterQueryNormalTurned(w, q) ==
    IF q.op = "normal_reflect" THEN [w EXCEPT !.normal = VScale(-1, w.normal)]
    ELSE w

\* the wall after the query q: every query is a const member function and
\* writes nothing but its output argument
AfterQuery(w, q) == w

\* ------------------------------------------------------------ the inputs
\* Corner sets of a Wall3D: right-angled triangles with the legs along two
\* axes and the right angle at the first corner (the origin), optionally
\* followed by a fourth corner off the plane.
OuterCcw == << <<0, 0, 0>>, <<16, 0, 0>>, <<0, 12, 0>> >>

OuterCw == << <<0, 0, 0>>, <<0, 12, 0>>, <<16, 0, 0>> >>

\* fourth corner off the plane by exactly libroom_eps
OuterOffByEps == OuterCcw \o << <<0, 0, libroom_eps>> >>

\* fourth corner off the plane by more than libroom_eps
OuterOffPlane == OuterCcw \o << <<0, 0, libroom_eps + 1>> >>

OuterCorners == {OuterCcw, OuterCw, OuterOffByEps, OuterOffPlane}

HoleA == << <<2, 2, 0>>, <<6, 2, 0>>, <<2, 4, 0>> >>

\* overlaps HoleA
HoleB == << <<3, 2, 0>>, <<7, 2, 0>>, <<3, 4, 0>> >>

\* HoleA in a plane parallel to the outer polygon's
HoleLifted == << <<2, 2, 1>>, <<6, 2, 1>>, <<2, 4, 1>> >>

\* has the same shape as HoleA and reaches over the edge x = 0 of the outer
\* polygon
HoleAtEdge == << <<-1, 4, 0>>, <<3, 4, 0>>, <<-1, 6, 0>> >>

HoleOffPlane == HoleA \o << <<2, 2, libroom_eps + 1>> >>

HoleCorners == {HoleA, HoleB, HoleLifted, HoleAtEdge}

\* lists of up to MaxHoles different holes, in every order
HoleLists ==
    { hs \in UNION { [1..n -> HoleCorners] : n \in 0..MaxHoles } :
        \A i, j \in 1..Len(hs) : hs[i] = hs[j] => i = j }

\* holes inside the outer polygon that do not meet, with areas that are
\* floats and add up to a float
HoleWide == << <<2, 2, 0>>, <<10, 2, 0>>, <<2, 4, 0>> >>

HoleTall == << <<1, 7, 0>>, <<5, 7, 0>>, <<1, 11, 0>> >>

\* lists of up to MaxHoles different holes for area()
AreaHoleLists ==
    { hs \in UNION { [1..n -> {HoleWide, HoleTall, HoleA}] : n \in 0..MaxHoles } :
        \A i, j \in 1..Len(hs) : hs[i] = hs[j] => i = j }

\* the walls compared by same_as: three outer corner sets, one of them with
\* a fourth corner, and lists of two holes
SameAsCorners == {OuterCcw, OuterCw, OuterOffByEps}

SameAsHoleLists ==
    { hs \in UNION { [1..n -> {HoleA, HoleB}] : n \in 0..MaxHoles } :
        \A i, j \in 1..Len(hs) : hs[i] = hs[j] => i = j }

\* what an indeterminate 3x2 float matrix may turn out to hold: zeros, the
\* polygon's basis pg by coincidence, or anything else
ZeroBasis == << <<0, 0, 0>>, <<0, 0, 0>> >>

LeftoverBasis == << <<5, -3, 2>>, <<0, 7, -1>> >>

BasisOutcomes(pg) == {ZeroBasis, LeftoverBasis, pg.outer_polygon.basis}

\* walls away from the coordinate origin, for reflect and side
WallAtZ3 == << <<1, 1, 3>>, <<5, 1, 3>>, <<1, 3, 3>> >>

WallAtX2 == << <<2, 0, 0>>, <<2, 5, 0>>, <<2, 0, 3>> >>

WallCorners3D == {WallAtZ3, WallAtX2}

\* Wall2D corner pairs; the last one is a wall of length zero
WallCorners2D ==
    { << <<2, 0>>, <<2, 4>> >>, << <<0, 3>>, <<5, 3>> >>,
      << <<4, 1>>, <<0, 1>> >>, << <<1, 1>>, <<1, 1>> >> }

AbsorptionValues ==
    {0, CoefOne \div 4, CoefOne \div 2, CoefOne, CoefOne + CoefOne \div 4}

AbsorptionArrays == UNION { [1..n -> AbsorptionValues] : n \in 0..MaxBands }

ScatterArrays == UNION { [1..n -> {CoefOne \div 4}] : n \in 0..MaxBands }

\* absorption arrays of every length with the same value in every band
UniformAbsorption ==
    { [i \in 1..n |-> CoefOne \div 2] : n \in 0..MaxBands }

OneBandAbsorption == { << CoefOne \div 2 >> }

OneBandScatter == { << CoefOne \div 4 >> }

RECURSIVE SvdFunctions(_)
\* JacobiSVD as a function on the set D of matrices: the same matrix always
\* gets the same decomposition
SvdFunctions(D) ==
    IF D = {} THEN { << >> }
    ELSE LET M == CHOOSE m \in D : TRUE
         IN  { (M :> s) @@ f : s \in SvdChoices(M), f \in SvdFunctions(D \ {M}) }

\* the centred corner matrix of SimplePolygon(corners)
CentredAtFirst(corners) == Centred(corners, corners[1])

\* end points of the segments handed to intersection: through each of the
\* places below along z, and slanted towards two of them
SegmentXY == { <<3, 3>>, <<4, 3>>, <<10, 1>>, <<0, 5>>, <<20, 20>> }

SegmentStarts == { <<q[1], q[2], z>> : q \in SegmentXY, z \in {-1, 0} }

SegmentEnds(p1) ==
    { <<p1[1], p1[2], z>> : z \in {0, 1} } \cup { <<4, 3, 1>>, <<10, 1, 1>> }

\* coordinates of the points handed to reflect: small ones, and ones beyond
\* the range in which every integer is a float
ReflectCoords ==
    { Fl(-(2 ^ MantBits + 2)), -1, 0, 2, 2 ^ MantBits - 1, Fl(2 ^ (MantBits + 1) + 4) }

ReflectPoints(dim) ==
    IF dim = 2 THEN { <<x, y>> : x \in ReflectCoords, y \in ReflectCoords }
    ELSE { <<x, y, z>> : x \in ReflectCoords, y \in {0, 2}, z \in ReflectCoords }

\* a Wall2D along x = 2^(MantBits + 1), where the spacing of the floats
\* changes from 2 eps below to 4 eps above
WallFar2D ==
    << <<2 ^ (MantBits + 1), 0>>, <<2 ^ (MantBits + 1), 4>> >>

\* the points handed to side: those handed to reflect, and the float next
\* below the far wall
SidePoints(dim) ==
    IF dim = 2
    THEN ReflectPoints(2) \cup
            { <<2 ^ (MantBits + 1) - 2, y>> : y \in {0, 2} }
    ELSE ReflectPoints(3)

\* the corners c listed in the opposite winding
Reversed(c) == [i \in DOMAIN c |-> c[Len(c) + 1 - i]]

\* a rectangle in the plane y = 1
QuadAtY1 == << <<0, 1, 0>>, <<0, 1, 2>>, <<4, 1, 2>>, <<4, 1, 0>> >>

\* coplanar corner lists in planes along each axis, in both windings
WindingCorners ==
    LET cs == {OuterCcw, OuterCw, WallAtZ3, WallAtX2, QuadAtY1}
    IN  cs \cup { Reversed(c) : c \in cs }

WindingHoleLists == { <<>>, <<HoleA>>, <<Reversed(HoleA)>> }

\* the queries put to a constructed wall w, with their arguments
PointQueries(w) ==
    LET ps == IF w.dim = 2 THEN { <<0, 0>>, <<3, 5>> }
              ELSE { <<3, 3, 2>>, <<3, 3, -1>> }
        vs == IF w.dim = 2 THEN { <<0, 2>>, <<0, 0>> }
              ELSE { <<0, 0, 2>>, <<0, 0, 0>> }
    IN  { [op |-> "reflect", p |-> x] : x \in ps }
        \cup { [op |-> "side", p |-> x] : x \in ps }
        \cup { [op |-> "normal_reflect", incident |-> x] : x \in vs }
        \cup { [op |-> "cosine_angle", p |-> x] : x \in vs }
        \cup { [op |-> "normal_reflect_from", start |-> x,
                hit_point |-> [i \in DOMAIN x |-> 0], length |-> 2] : x \in vs }

PolygonQueries ==
    { [op |-> "intersection", p1 |-> <<q[1], q[2], -1>>, p2 |-> <<q[1], q[2], 1>>] :
        q \in { <<3, 3>>, <<10, 1>>, <<20, 20>> } }
    \cup { [op |-> "intersects", p1 |-> <<3, 3, -1>>, p2 |-> <<3, 3, 0>>] }
    \cup { [op |-> "area"] }
    \cup { [op |-> "same_as", corners |-> OuterCcw, holes |-> hs] :
            hs \in { << >>, <<HoleA>> } }

Queries(w) == IF w.dim = 3 THEN PointQueries(w) \cup PolygonQueries
              ELSE PointQueries(w)

\* how many queries are put to a wall
MaxQueries == 3

\* how many times reflect is applied to its own output
MaxChain == 2

\* ------------------------------------------------------------- the state
VARIABLES
    wall,   \* the wall the last constructor call produced, NoWall if it threw
    err,    \* how that constructor call ended: "none", "coefficients", "geometry"
    ctor,   \* the arguments of that constructor call
    call    \* the last query made of the wall, with its results

vars == << wall, err, ctor, call >>

NoCall == [op |-> "none"]

NoCtor == [dim |-> 0, corners |-> <<>>, holes |-> <<>>, absorption |-> <<>>,
           scatter |-> <<>>]

Init ==
    /\ wall = NoWall
    /\ err = "none"
    /\ ctor = NoCtor
    /\ call = NoCall

\* new Wall2D(corners, absorption, scatter)
Construct2D(Cs, As, Ss) ==
    /\ ctor.dim = 0
    /\ \E c \in Cs, a \in As, sc \in Ss :
        \E r \in { Wall2D(c, a, sc) } :
            /\ wall' = r.wall
            /\ err' = r.err
            /\ ctor' = [dim |-> 2, corners |-> c, holes |-> <<>>,
                        absorption |-> a, scatter |-> sc]
            /\ call' = NoCall

\* new Wall3D(corners, holes, absorption, scatter)
Construct3D(Cs, Hs, As, Ss) ==
    /\ ctor.dim = 0
    /\ \E c \in Cs, hs \in Hs, a \in As, sc \in Ss :
        \E f \in SvdFunctions({ CentredAtFirst(c) } \cup
                               { CentredAtFirst(hs[i]) : i \in DOMAIN hs }) :
            \E r \in { Wall3D(c, hs, a, sc, f[CentredAtFirst(c)],
                               [i \in DOMAIN hs |-> f[CentredAtFirst(hs[i])]]) } :
                /\ wall' = r.wall
                /\ err' = r.err
                /\ ctor' = [dim |-> 3, corners |-> c, holes |-> hs,
                            absorption |-> a, scatter |-> sc]
                /\ call' = NoCall

\* wall.intersection(p1, p2, buffer) on a Wall3D, the buffer fresh
Intersection ==
    /\ wall.dim = 3
    /\ call.op = "none"
    /\ \E p1 \in SegmentStarts : \E p2 \in SegmentEnds(p1) :
        \E r \in { PolygonIntersection(wall.wall_geometry, p1, p2, NoPoint) } :
            call' = [op |-> "intersection", p1 |-> p1, p2 |-> p2,
                     ret |-> r.ret, point |-> r.point, trace |-> r.trace,
                     outer |-> r.outer]
    /\ UNCHANGED << wall, err, ctor >>

\* wall.reflect(p, p_reflected)
Reflect ==
    /\ wall.dim # 0
    /\ call.op = "none"
    /\ \E p \in ReflectPoints(wall.dim) :
        \E r \in { reflect(wall, p) } :
            call' = [op |-> "reflect", p |-> p, d |-> r.d, ret |-> r.ret,
                     p_reflected |-> r.p_reflected, chain |-> 0,
                     prev_p |-> p, prev_d |-> r.d, prev_ret |-> r.ret]
    /\ UNCHANGED << wall, err, ctor >>

\* wall.reflect(q, q_reflected) with q the point the last reflect wrote
ReflectAgain ==
    /\ wall.dim # 0
    /\ call.op = "reflect"
    /\ call.chain < MaxChain
    /\ \E r \in { reflect(wall, call.p_reflected) } :
           call' = [op |-> "reflect", p |-> call.p_reflected, d |-> r.d,
                    ret |-> r.ret, p_reflected |-> r.p_reflected,
                    chain |-> call.chain + 1,
                    prev_p |-> call.p, prev_d |-> call.d, prev_ret |-> call.ret]
    /\ UNCHANGED << wall, err, ctor >>

\* wall.area() on a Wall3D
Area ==
    /\ wall.dim = 3
    /\ call.op = "none"
    /\ \E a \in { Wall3DArea(wall) } :
        call' = [op |-> "area", ret |-> a]
    /\ UNCHANGED << wall, err, ctor >>

\* a second Wall3D, built from corners c and holes hs
OtherWall3D(c, hs) ==
    LET f == CHOOSE g \in SvdFunctions({ CentredAtFirst(c) } \cup
                                       { CentredAtFirst(hs[i]) : i \in DOMAIN hs }) : TRUE
    IN  Wall3D(c, hs, << CoefOne \div 2 >>, << CoefOne \div 4 >>,
               f[CentredAtFirst(c)],
               [i \in DOMAIN hs |-> f[CentredAtFirst(hs[i])]]).wall

\* wall.same_as(that) and that.same_as(wall) for a second Wall3D that
SameAs ==
    /\ wall.dim = 3
    /\ call.op = "none"
    /\ \E c \in SameAsCorners, hs \in SameAsHoleLists :
        \E that \in { OtherWall3D(c, hs) } :
          \E r \in { Wall3DSameAs(wall, that) } :
            call' = [op |-> "same_as", corners |-> c, holes |-> hs,
                     ret |-> r, reverse |-> Wall3DSameAs(that, wall)]
    /\ UNCHANGED << wall, err, ctor >>

\* new Wall3D(wall): the copy takes the place of the wall
Copy ==
    /\ wall.dim = 3
    /\ call.op = "none"
    /\ \E r \in { Wall3DCopy(wall) } :
        /\ wall' = r.wall
        /\ err' = r.err
    /\ call' = [op |-> "copy"]
    /\ UNCHANGED ctor

\* a client reads the public members of a Wall3D, of the constructed wall or
\* of its copy; reading an indeterminate member yields one of its outcomes
ReadMembers ==
    /\ wall.dim = 3
    /\ call.op \in {"none", "copy"}
    /\ \E b \in IF wall.basis = Indeterminate
                THEN BasisOutcomes(wall.wall_geometry)
                ELSE {wall.basis} :
        call' = [op |-> "members", copied |-> call.op = "copy",
                 origin |-> wall.origin, normal |-> wall.normal,
                 corners |-> wall.corners, basis |-> b,
                 flat_corners |-> wall.flat_corners]
    /\ UNCHANGED << wall, err, ctor >>

\* what the query q on the wall w returns or writes to its output argument
Answer(w, q) ==
    CASE q.op = "intersection" ->
            Bind(PolygonIntersection(w.wall_geometry, q.p1, q.p2, NoPoint),
                 LAMBDA r : [ret |-> r.ret, point |-> r.point])
      [] q.op = "intersects" -> [ret |-> intersects(w, q.p1, q.p2)]
      [] q.op = "reflect" ->
            Bind(reflect(w, q.p),
                 LAMBDA r : [ret |-> r.ret, p_reflected |-> r.p_reflected])
      [] q.op = "side" -> [ret |-> side(w, q.p).ret]
      [] q.op = "normal_reflect" -> [ret |-> normal_reflect(w, q.incident)]
      [] q.op = "normal_reflect_from" ->
            [ret |-> normal_reflect_from(w, q.start, q.hit_point, q.length)]
      [] q.op = "cosine_angle" -> [ret |-> cosine_angle(w, q.p)]
      [] q.op = "area" -> [ret |-> Wall3DArea(w)]
      [] q.op = "same_as" ->
            [ret |-> Wall3DSameAs(w, OtherWall3D(q.corners, q.holes))]

\* any query on the constructed wall, after any earlier queries
Query ==
    /\ wall.dim # 0
    /\ call.op \in {"none", "query"}
    /\ call.op = "query" => call.n < MaxQueries
    /\ \E q \in Queries(wall) :
        \E a \in { Answer(wall, q) } :
            /\ call' = [op |-> "query",
                        n |-> IF call.op = "none" THEN 1 ELSE call.n + 1,
                        before |-> IF call.op = "none" THEN wall ELSE call.before,
                        first |-> IF call.op = "none"
                                  THEN [q |-> q, answer |-> a] ELSE call.first,
                        last |-> [q |-> q, answer |-> a]]
            /\ wall' = AfterQuery(wall, q)
    /\ UNCHANGED << err, ctor >>

\* wall.side(p) for the point p that was last handed to reflect
SideOfReflected ==
    /\ wall.dim # 0
    /\ call.op = "reflect"
    /\ call.chain = 0
    /\ \E r \in { side(wall, call.p) } :
        call' = [op |-> "side_of_reflected", p |-> call.p,
                 reflect_ret |-> call.ret, d |-> call.d,
                 ret |-> r.ret, ip |-> r.ip]
    /\ UNCHANGED << wall, err, ctor >>

\* wall.side(p)
Side ==
    /\ wall.dim # 0
    /\ call.op = "none"
    /\ \E p \in SidePoints(wall.dim) :
        \E r \in { side(wall, p) } :
            call' = [op |-> "side", p |-> p, ip |-> r.ip, ret |-> r.ret,
                     chain |-> 0, prev_p |-> p, prev_ip |-> r.ip,
                     prev_ret |-> r.ret]
    /\ UNCHANGED << wall, err, ctor >>

\* wall.side(origin + (origin - q)) with q the point side was last asked
\* about: the mirror image of q through the wall's origin, computed in float
SideMirrored ==
    /\ wall.dim # 0
    /\ call.op = "side"
    /\ call.chain = 0
    /\ \E q \in { VAdd(wall.origin, VSub(wall.origin, call.p)) } :
        \E r \in { side(wall, q) } :
            call' = [op |-> "side", p |-> q, ip |-> r.ip, ret |-> r.ret,
                     chain |-> 1, prev_p |-> call.p, prev_ip |-> call.ip,
                     prev_ret |-> call.ret]
    /\ UNCHANGED << wall, err, ctor >>

\* walls with and without holes, and the segments that meet them
NextGeometry ==
    \/ Construct3D({OuterCcw, OuterCw}, HoleLists, OneBandAbsorption, OneBandScatter)
    \/ Intersection

SpecGeometry == Init /\ [][NextGeometry]_vars

\* walls of both dimensions, planar and not, with every combination of
\* coefficient arrays
NextConstruction ==
    \/ Construct2D(WallCorners2D, AbsorptionArrays, ScatterArrays)
    \/ Construct3D(OuterCorners,
                   { <<>>, <<HoleA>>, <<HoleOffPlane>>, <<HoleA, HoleOffPlane>> },
                   UniformAbsorption, ScatterArrays)

SpecConstruction == Init /\ [][NextConstruction]_vars

\* walls of both dimensions and the points reflected across them
NextReflect ==
    \/ Construct2D(WallCorners2D, OneBandAbsorption, OneBandScatter)
    \/ Construct3D(WallCorners3D, {<<>>}, OneBandAbsorption, OneBandScatter)
    \/ Reflect
    \/ ReflectAgain

SpecReflect == Init /\ [][NextReflect]_vars

\* walls with and without holes, and their area
NextArea ==
    \/ Construct3D({OuterCcw, OuterCw}, AreaHoleLists, OneBandAbsorption, OneBandScatter)
    \/ Area

SpecArea == Init /\ [][NextArea]_vars

\* pairs of walls with and without holes
NextSameAs ==
    \/ Construct3D(SameAsCorners, SameAsHoleLists, OneBandAbsorption, OneBandScatter)
    \/ SameAs

SpecSameAs == Init /\ [][NextSameAs]_vars

\* walls with and without a hole, their copies and their public members
NextMembers ==
    \/ Construct3D({OuterCcw, OuterCw}, { <<>>, <<HoleA>>, <<HoleLifted>> },
                   OneBandAbsorption, OneBandScatter)
    \/ Copy
    \/ ReadMembers

SpecMembers == Init /\ [][NextMembers]_vars

\* polygons in both windings and their areas
NextWinding ==
    \/ Construct3D(WindingCorners, WindingHoleLists, OneBandAbsorption, OneBandScatter)
    \/ Area

SpecWinding == Init /\ [][NextWinding]_vars

\* walls of both dimensions, a point reflected and then asked for its side
NextReflectSide ==
    \/ Construct2D(WallCorners2D \cup {WallFar2D}, OneBandAbsorption, OneBandScatter)
    \/ Construct3D(WallCorners3D, {<<>>}, OneBandAbsorption, OneBandScatter)
    \/ Reflect
    \/ SideOfReflected

SpecReflectSide == Init /\ [][NextReflectSide]_vars

\* walls of both dimensions and sequences of queries
NextQueries ==
    \/ Construct2D({ << <<2, 0>>, <<2, 4>> >> }, OneBandAbsorption, OneBandScatter)
    \/ Construct3D({OuterCcw}, { <<>>, <<HoleA>> },
                   OneBandAbsorption, OneBandScatter)
    \/ Query

SpecQueries == Init /\ [][NextQueries]_vars

\* walls of both dimensions and the points whose side is asked
NextSide ==
    \/ Construct2D(WallCorners2D \cup {WallFar2D}, OneBandAbsorption, OneBandScatter)
    \/ Construct3D(WallCorners3D, {<<>>}, OneBandAbsorption, OneBandScatter)
    \/ Side
    \/ SideMirrored

SpecSide == Init /\ [][NextSide]_vars

Next ==
    \/ Construct2D(WallCorners2D, AbsorptionArrays, ScatterArrays)
    \/ Construct3D(OuterCorners \cup WallCorners3D, { <<>>, <<HoleA>>, <<HoleB, HoleA>> },
                   OneBandAbsorption, ScatterArrays)
    \/ Intersection
    \/ Reflect
    \/ ReflectAgain

Spec == Init /\ [][Next]_vars

\* ---------------------------------------------------------------- claims
\* ------------------------------------------- intersection (SpecGeometry)
IsIntersection == call.op = "intersection"

HasHoles == wall.wall_geometry.kind = "PolygonWithHole"

NumHoles == Len(wall.wall_geometry.inner_polygons)

\* what the outer polygon alone reports for the segment of the last call
OuterStatus ==
    SimplePolygonIntersection(wall.wall_geometry.outer_polygon,
                              call.p1, call.p2, NoPoint).ret

\* what hole i alone reports for the segment of the last call
HoleStatus(i) ==
    SimplePolygonIntersection(wall.wall_geometry.inner_polygons[i],
                              call.p1, call.p2, NoPoint).ret

\* the first hole of the list that reports a hit, 0 if none does
FirstHit ==
    IF \E i \in 1..NumHoles : HoleStatus(i) # -1
    THEN CHOOSE i \in 1..NumHoles :
            /\ HoleStatus(i) # -1
            /\ \A j \in 1..(i - 1) : HoleStatus(j) = -1
    ELSE 0

\* the holes are reached: the outer polygon reports a hit off its boundary
HolesReached == IsIntersection /\ HasHoles /\ OuterStatus \in {0, 1}

\* C1: when the outer polygon reports 0 or 1 and the first hole that reports
\* a hit reports 0 or 1, PolygonWithHole.intersection returns NONE (-1),
\* although the outer polygon alone reports a valid hit.
C1_HoleInteriorGivesNone ==
    (HolesReached /\ FirstHit # 0 /\ HoleStatus(FirstHit) \in {0, 1})
        => call.ret = WALL_ISECT_NONE

\* a segment through a hole's interior after an earlier hole reported nothing
C1_Witness ==
    /\ HolesReached /\ FirstHit = 2 /\ HoleStatus(2) \in {0, 1}
    /\ OuterStatus = WALL_ISECT_VALID
    /\ call.ret = WALL_ISECT_NONE

\* C2: when the outer polygon reports NONE the result is NONE, and when it
\* reports a boundary hit (2 or 3) that status is the result whatever the
\* holes would report; in both cases no hole is consulted.
C2_OuterDecidesAlone ==
    (IsIntersection /\ HasHoles /\ OuterStatus \notin {0, 1})
        => /\ OuterStatus \in {-1, 2, 3}
           /\ call.ret = OuterStatus
           /\ call.trace = << >>

\* a hit on the outer boundary that lies inside a hole
C2_Witness ==
    /\ IsIntersection /\ HasHoles /\ OuterStatus >= 2
    /\ \E i \in 1..NumHoles : HoleStatus(i) \in {0, 1}
    /\ call.ret = OuterStatus
    /\ call.trace = << >>

\* C3: when the outer polygon reports 0 or 1 and the first hole that reports
\* a hit reports a boundary hit (2 or 3), the result is exactly that hole's
\* status, so it has the boundary bit set.
C3_HoleBoundaryReturned ==
    (HolesReached /\ FirstHit # 0 /\ HoleStatus(FirstHit) >= 2)
        => /\ call.ret = HoleStatus(FirstHit)
           /\ call.ret \in {WALL_ISECT_VALID_BNDRY, ENDPOINT_BOUNDARY}

\* a hole reports the boundary and the segment's end at once
C3_Witness ==
    /\ HolesReached /\ FirstHit # 0
    /\ HoleStatus(FirstHit) = ENDPOINT_BOUNDARY
    /\ call.ret = ENDPOINT_BOUNDARY

\* the status HoleStatus(k) of the first hitting hole k turns into
DecidedBy(k) == IF HoleStatus(k) \in {0, 1} THEN -1 ELSE HoleStatus(k)

\* C4: when the outer polygon reports 0 or 1 the holes are consulted in list
\* order up to and including the first one that reports a hit, which decides
\* the result; later holes are not consulted; when every hole reports NONE
\* the result is the outer polygon's status.
C4_FirstHoleDecides ==
    HolesReached =>
        LET last == IF FirstHit = 0 THEN NumHoles ELSE FirstHit
        IN  /\ call.trace = [i \in 1..last |-> [hole |-> i, ret |-> HoleStatus(i)]]
            /\ call.ret = IF FirstHit = 0 THEN OuterStatus ELSE DecidedBy(FirstHit)

\* the first hole decides although the second would decide otherwise
C4_Witness ==
    /\ HolesReached /\ FirstHit = 1 /\ NumHoles = 2
    /\ HoleStatus(2) # -1
    /\ DecidedBy(2) # DecidedBy(1)
    /\ Len(call.trace) = 1
    /\ call.ret = DecidedBy(1)

\* every hole reports NONE and the outer polygon's status comes back
C4_FallThroughReached ==
    /\ HolesReached /\ NumHoles = 2 /\ FirstHit = 0
    /\ Len(call.trace) = 2
    /\ call.ret = OuterStatus

\* C5: SimplePolygon.intersection returns NONE when the plane primitive
\* reports no intersection or the projected point is outside the polygon;
\* otherwise ENDPT (1) if the plane primitive reported an end point, or-ed
\* with BNDRY (2) if the point is on the polygon's boundary; the result is
\* one of -1, 0, 1, 2, 3.
C5_SimplePolygonStatus ==
    IsIntersection =>
        LET o   == call.outer
            sp  == wall.wall_geometry.outer_polygon
            pl  == intersection_3d_segment_plane(call.p1, call.p2, sp.origin,
                                                 sp.normal, NoPoint).ret
        IN  /\ o.ret1 = pl
            /\ o.ret \in {-1, 0, 1, 2, 3}
            /\ (o.ret1 = -1 \/ o.ret2 < 0) => o.ret = WALL_ISECT_NONE
            /\ (o.ret1 # -1 /\ o.ret2 >= 0) =>
                    o.ret = (IF o.ret1 = 1 THEN WALL_ISECT_VALID_ENDPT ELSE 0)
                            + (IF o.ret2 = 1 THEN WALL_ISECT_VALID_BNDRY ELSE 0)
            /\ ~HasHoles => call.ret = o.ret

\* an end point of the segment on the boundary of a polygon without holes
C5_Witness ==
    /\ IsIntersection /\ ~HasHoles
    /\ call.outer.ret1 = 1 /\ call.outer.ret2 = 1
    /\ call.ret = ENDPOINT_BOUNDARY

\* the plane is hit but the point is outside the polygon
C5_OutsideReached ==
    /\ IsIntersection /\ call.outer.ret1 = 1 /\ call.outer.ret2 = -1
    /\ call.ret = WALL_ISECT_NONE

\* ----------------------------------------- construction (SpecConstruction)
Constructed == ctor.dim # 0

SameBandCount == Len(ctor.absorption) = Len(ctor.scatter)

\* C6: constructing a Wall2D or Wall3D with absorption and scatter of
\* different lengths ends in a construction error and leaves no wall (so no
\* truncated or padded sequences either).
C6_MismatchFails ==
    (Constructed /\ ~SameBandCount) => (err = "coefficients" /\ wall = NoWall)

\* planar corners, absorption longer than scatter
C6_Witness ==
    /\ ctor.dim = 3 /\ ctor.corners = OuterCcw /\ ctor.holes = << >>
    /\ Len(ctor.absorption) > Len(ctor.scatter)
    /\ Len(ctor.scatter) > 0
    /\ err = "coefficients" /\ wall = NoWall

\* a Wall2D with absorption shorter than scatter
C6_Witness2D ==
    /\ ctor.dim = 2
    /\ Len(ctor.absorption) < Len(ctor.scatter)
    /\ err = "coefficients" /\ wall = NoWall

\* the square of the smallest singular value of corners - origin, the origin
\* being the first corner
SmallestSingularSquared(corners) ==
    LET M == CentredAtFirst(corners)
    IN  Min(RowEnergy(M, 1), Min(RowEnergy(M, 2), RowEnergy(M, 3)))

\* the corner sets handed to the last Wall3D constructor
CornerSets == {ctor.corners} \cup { ctor.holes[i] : i \in DOMAIN ctor.holes }

EpsSquared == libroom_eps * libroom_eps

\* C7 as stated: construction fails unless the smallest singular value of
\* the outer corner set and of every hole is below eps.
C7_FailsUnlessBelowEps ==
    (ctor.dim = 3 /\ \E cs \in CornerSets : ~(SmallestSingularSquared(cs) < EpsSquared))
        => (err # "none" /\ wall = NoWall)

\* C7: Wall3D construction with coefficient arrays of equal length fails
\* with a geometry error, leaving no wall, exactly when the smallest
\* singular value of the outer corner set or of a hole is greater than eps;
\* a smallest singular value equal to eps is accepted.
C7_FailsWhenAboveEps ==
    (ctor.dim = 3 /\ SameBandCount) =>
        IF \E cs \in CornerSets : SmallestSingularSquared(cs) > EpsSquared
        THEN err = "geometry" /\ wall = NoWall
        ELSE err = "none" /\ wall.dim = 3 /\ ~wall.wall_geometry.thrown

\* a planar outer polygon with a hole that is not planar: no wall
C7_Witness ==
    /\ ctor.dim = 3 /\ SameBandCount
    /\ SmallestSingularSquared(ctor.corners) = 0
    /\ \E i \in DOMAIN ctor.holes :
            SmallestSingularSquared(ctor.holes[i]) > EpsSquared
    /\ err = "geometry" /\ wall = NoWall

\* a corner off the plane by exactly eps: the wall is built
C7_AtEpsAccepted ==
    /\ ctor.dim = 3
    /\ SmallestSingularSquared(ctor.corners) = EpsSquared
    /\ err = "none" /\ wall.dim = 3

Bands == DOMAIN wall.transmission

\* C8 as stated: transmission[i]^2 + energy_reflection[i] == 1 in every band
\* of a constructed wall.
C8_SquarePlusReflectionIsOne ==
    wall.dim # 0 =>
        \A i \in Bands :
            wall.transmission[i] * wall.transmission[i]
                + wall.energy_reflection[i] * CoefOne = CoefOne * CoefOne

\* C8: in every band of a constructed wall energy_reflection[i] is
\* 1 - absorption[i] and transmission[i] is its square root: for
\* absorption[i] <= 1 it is the nonnegative representable value nearest to
\* the root, so transmission[i]^2 equals energy_reflection[i] up to that
\* rounding (and transmission[i]^2 + absorption[i] is 1 up to it); for
\* absorption[i] > 1 it is NaN.
C8_TransmissionIsRootOfReflection ==
    wall.dim # 0 =>
        /\ DOMAIN wall.energy_reflection = DOMAIN wall.absorption
        /\ Bands = DOMAIN wall.absorption
        /\ \A i \in Bands :
            LET t  == wall.transmission[i]
                er == wall.energy_reflection[i]
            IN  /\ er = CoefOne - wall.absorption[i]
                /\ IF er < 0 THEN t = NaN
                   ELSE /\ t >= 0
                        /\ Abs(t * t - er * CoefOne) <= t

\* a band whose root is not representable, and one that absorbs nothing
C8_Witness ==
    /\ wall.dim # 0 /\ Len(wall.transmission) = 2
    /\ wall.absorption[1] = CoefOne \div 2
    /\ wall.transmission[1] * wall.transmission[1]
            # wall.energy_reflection[1] * CoefOne
    /\ wall.absorption[2] = 0
    /\ wall.transmission[2] = CoefOne /\ wall.energy_reflection[2] = CoefOne

\* a band that absorbs more than everything
C8_NaNReached ==
    /\ wall.dim # 0
    /\ \E i \in Bands : wall.absorption[i] > CoefOne /\ wall.transmission[i] = NaN

\* ------------------------------------------------- reflect (SpecReflect)
IsReflect == call.op = "reflect"

Axes == DOMAIN wall.normal

\* normal . (origin - p) in float arithmetic, summed left to right
FloatDistance(p) ==
    LET term(i) == Fl(wall.normal[i] * Fl(wall.origin[i] - p[i]))
    IN  IF wall.dim = 2 THEN Fl(term(1) + term(2))
        ELSE Fl(Fl(term(1) + term(2)) + term(3))

\* C9: with d = normal . (origin - p), reflect(p) writes
\* p_reflected = p + 2*d*normal and returns +1 if d > eps, -1 if d < -eps and
\* 0 otherwise; the point is written in all three cases.
C9_ReflectFormula ==
    IsReflect =>
        /\ call.d = FloatDistance(call.p)
        /\ DOMAIN call.p_reflected = Axes
        /\ \A i \in Axes :
             call.p_reflected[i]
                 = Fl(call.p[i] + Fl(Fl(2 * call.d) * wall.normal[i]))
        /\ call.d > libroom_eps => call.ret = 1
        /\ call.d < -libroom_eps => call.ret = -1
        /\ (call.d <= libroom_eps /\ call.d >= -libroom_eps) => call.ret = 0

\* p at the distance eps from the wall: 0 is returned and the mirror image,
\* another point, is written
C9_Witness ==
    /\ IsReflect /\ call.chain = 0
    /\ Abs(call.d) = libroom_eps
    /\ call.ret = 0
    /\ call.p_reflected # call.p
    /\ \E i \in Axes : call.p_reflected[i] = call.p[i] + 2 * call.d * wall.normal[i]

\* both signs are returned
C9_BothSidesReached ==
    /\ IsReflect /\ call.chain = 1
    /\ call.ret = 1 /\ call.prev_ret = -1

UnitNormal == XDot(wall.normal, wall.normal) = 1

\* reflect was applied to the point an earlier reflect wrote
Reflected == IsReflect /\ call.chain >= 1

\* C10 as stated: for a wall with a unit normal, reflecting the reflected
\* point returns the original point, with the negated signed distance and
\* the opposite sign.
C10_ReflectTwiceIsIdentity ==
    (Reflected /\ UnitNormal) =>
        /\ call.p_reflected = call.prev_p
        /\ call.d = -call.prev_d
        /\ call.ret = -call.prev_ret

\* x is a float
Representable(x) == Fl(x) = x

\* the exact signed distance of p and its exact mirror image
ExactDistance(p) == XDot(wall.normal, XSub(wall.origin, p))

ExactMirror(p) == [i \in Axes |-> p[i] + 2 * ExactDistance(p) * wall.normal[i]]

\* reflect(p) computes without rounding: the distance of p, its double and
\* the mirror image of p are floats
MirrorExact(p) ==
    /\ Representable(ExactDistance(p))
    /\ Representable(2 * ExactDistance(p))
    /\ \A i \in Axes : Representable(ExactMirror(p)[i])

\* C10: for a wall with a unit normal and a point p whose signed distance,
\* twice that distance and mirror image are floats (so that reflect(p)
\* rounds nothing), reflecting the point produced by reflect(p) returns p,
\* the signed distance is negated and the two returned signs are opposite or
\* both 0.
C10_ExactReflectTwiceIsIdentity ==
    (Reflected /\ UnitNormal /\ MirrorExact(call.prev_p)) =>
        /\ call.p = ExactMirror(call.prev_p)
        /\ call.p_reflected = call.prev_p
        /\ call.d = -call.prev_d
        /\ call.ret = -call.prev_ret

\* a point off the wall comes back from the other side
C10_Witness ==
    /\ Reflected /\ UnitNormal /\ MirrorExact(call.prev_p)
    /\ call.prev_ret = 1 /\ call.ret = -1
    /\ call.p # call.prev_p
    /\ call.p_reflected = call.prev_p

\* the distance of p is rounded, and the second image is not p
C10_RoundingReached ==
    /\ Reflected /\ UnitNormal /\ ~MirrorExact(call.prev_p)
    /\ call.p_reflected # call.prev_p

\* ------------------------------------------------------ side (SpecSide)
IsSide == call.op = "side"

\* side was asked about the mirror image of the point it was asked before
Mirrored == IsSide /\ call.chain = 1

\* C11 as stated: side(p) == -side(origin + (origin - p)) for every wall and
\* every point p.
C11_SideAntisymmetric ==
    Mirrored => call.ret = -call.prev_ret

\* the mirror image origin + (origin - p) is computed without rounding
MirrorThroughOriginExact(p) ==
    \A i \in DOMAIN p :
        /\ Representable(wall.origin[i] - p[i])
        /\ Representable(2 * wall.origin[i] - p[i])

\* C11: for every wall and every point p whose mirror image
\* origin + (origin - p) is computed without rounding (origin - p and the
\* image are floats), side(p) == -side(origin + (origin - p)), and the inner
\* product of the image is the negation of that of p.
C11_SideAntisymmetricWhenExact ==
    (Mirrored /\ MirrorThroughOriginExact(call.prev_p)) =>
        /\ call.p = [i \in DOMAIN call.prev_p |->
                        2 * wall.origin[i] - call.prev_p[i]]
        /\ call.ip = -call.prev_ip
        /\ call.ret = -call.prev_ret

\* a point in front of the wall and its image behind it
C11_Witness ==
    /\ Mirrored /\ MirrorThroughOriginExact(call.prev_p)
    /\ call.prev_ret = 1 /\ call.ret = -1
    /\ call.p # call.prev_p

\* a point at the distance eps: both sides are 0
C11_AtEpsReached ==
    /\ Mirrored /\ MirrorThroughOriginExact(call.prev_p)
    /\ Abs(call.prev_ip) = libroom_eps
    /\ call.prev_ret = 0 /\ call.ret = 0

\* the image is rounded onto the wall: the point is behind it, the image on it
C11_RoundedOntoWall ==
    /\ Mirrored /\ ~MirrorThroughOriginExact(call.prev_p)
    /\ call.prev_ret = -1 /\ call.ret = 0

\* -------------------------------------------------------- area (SpecArea)
IsArea == call.op = "area"

\* the float area of the flattened corners fc (twice the area)
FlatArea(fc) == Fl(area_2d_polygon(fc))

AreaOfHole(i) == FlatArea(wall.wall_geometry.inner_polygons[i].flat_corners)

AreaOfOuter == FlatArea(wall.wall_geometry.outer_polygon.flat_corners)

RECURSIVE SumOfHoles(_)
\* the areas of the first n holes added up in list order, in float
SumOfHoles(n) ==
    IF n = 0 THEN 0 ELSE Fl(SumOfHoles(n - 1) + AreaOfHole(n))

\* C12: area() of a PolygonWithHole is the outer polygon's area minus the
\* sum of the areas of the inner polygons, each counted once in list order
\* (float arithmetic), and Wall3D.area() returns its polygon's area().
C12_AreaSubtractsHoles ==
    IsArea =>
        /\ HasHoles => call.ret = Fl(AreaOfOuter - SumOfHoles(NumHoles))
        /\ ~HasHoles => call.ret = AreaOfOuter
        /\ call.ret = PolygonArea(wall.wall_geometry)

\* two holes, both subtracted, nothing rounded
C12_Witness ==
    /\ IsArea /\ HasHoles /\ NumHoles = 2
    /\ AreaOfHole(1) > 0 /\ AreaOfHole(2) > 0
    /\ call.ret = AreaOfOuter - AreaOfHole(1) - AreaOfHole(2)

\* a hole too small for the float spacing at the outer area: area() is the
\* outer polygon's
C12_SmallHoleAbsorbed ==
    /\ IsArea /\ NumHoles = 1 /\ AreaOfHole(1) > 0
    /\ call.ret = AreaOfOuter

\* --------------------------------------------------- same_as (SpecSameAs)
IsSameAs == call.op = "same_as"

\* C13: same_as is gated by dynamic type: a SimplePolygon never equals a
\* PolygonWithHole, in either direction; two SimplePolygons are equal iff
\* they have the same number of corners and identical coordinates; two
\* PolygonWithHoles are equal iff their outer polygons are equal, they have
\* the same number of holes and hole i equals hole i for every i.
C13_SameAsStructural ==
    IsSameAs =>
        LET sameType == (ctor.holes = << >>) <=> (call.holes = << >>)
            sameOuter == /\ Len(ctor.corners) = Len(call.corners)
                         /\ \A i \in DOMAIN ctor.corners :
                                ctor.corners[i] = call.corners[i]
            sameHoles == /\ Len(ctor.holes) = Len(call.holes)
                         /\ \A i \in DOMAIN ctor.holes :
                                ctor.holes[i] = call.holes[i]
        IN  /\ call.ret <=> (sameType /\ sameOuter /\ sameHoles)
            /\ call.reverse <=> call.ret

\* the same two holes in the other order: not the same
C13_Witness ==
    /\ IsSameAs /\ Len(ctor.holes) = 2
    /\ call.corners = ctor.corners
    /\ call.holes = << ctor.holes[2], ctor.holes[1] >>
    /\ ~call.ret /\ ~call.reverse

\* equal walls with holes are the same
C13_EqualReached ==
    /\ IsSameAs /\ Len(ctor.holes) = 2
    /\ call.corners = ctor.corners /\ call.holes = ctor.holes
    /\ call.ret /\ call.reverse

\* the same outer corners with and without holes: not the same
C13_TypesDifferReached ==
    /\ IsSameAs /\ ctor.holes = << >> /\ call.holes # << >>
    /\ call.corners = ctor.corners
    /\ ~call.ret /\ ~call.reverse

\* ---------------------------------------- cached members (SpecMembers)
IsMembers == call.op = "members"

\* the polygon the wall owns, seen through its getters
Owned == wall.wall_geometry.outer_polygon

\* C14 as stated: after a successful Wall3D construction, ordinary or copy,
\* the wall's members origin, normal, corners, basis and flat_corners equal
\* the values of the polygon it owns.
C14_MembersMirrorPolygon ==
    IsMembers =>
        /\ call.origin = Owned.origin
        /\ call.normal = Owned.normal
        /\ call.corners = Owned.corners
        /\ call.basis = Owned.basis
        /\ call.flat_corners = Owned.flat_corners

\* what does hold: origin, normal and corners are the polygon's
C14_OriginNormalCornersMirror ==
    IsMembers =>
        /\ call.origin = Owned.origin
        /\ call.normal = Owned.normal
        /\ call.corners = Owned.corners

\* flat_corners of the wall has no columns while the polygon's has one per
\* corner, on the constructed wall and on its copy
C14_FlatCornersEmpty ==
    /\ IsMembers /\ call.copied
    /\ call.flat_corners = EmptyMatrix
    /\ Len(Owned.flat_corners) = Len(call.corners)
    /\ call.basis # Owned.basis

\* ------------------------------------------------- queries (SpecQueries)
IsQuery == call.op = "query"

C15_AllQueriesReached ==
    \A o \in {"intersects", "reflect", "side", "normal_reflect",
              "normal_reflect_from", "cosine_angle", "area", "same_as"} :
        (IsQuery /\ call.n > 1 /\ wall.dim = 3) => call.last.q.op # o

\* ------------------------------------------------ winding (SpecWinding)
\* the SimplePolygons of the constructed wall with the corners they were
\* built from
BuiltPolygons ==
    { [poly |-> wall.wall_geometry.outer_polygon, corners |-> ctor.corners] }
    \cup { [poly |-> wall.wall_geometry.inner_polygons[i],
            corners |-> ctor.holes[i]] : i \in DOMAIN ctor.holes }

\* the basis and flat corners before the orientation fix-up, had Eigen
\* returned the decomposition svd
FirstBasis(svd) == << UnitAxis(svd.order[1], svd.s1), UnitAxis(svd.order[2], svd.s2) >>

FirstFlat(corners, svd) == FlatCorners(FirstBasis(svd), CentredAtFirst(corners))

\* the polygon b.poly came from the decomposition svd by the fix-up the
\* claim describes
FixedUpFrom(b, svd) ==
    LET a == area_2d_polygon(FirstFlat(b.corners, svd))
    IN  IF a < 0
        THEN /\ b.poly.basis = << FirstBasis(svd)[2], FirstBasis(svd)[1] >>
             /\ area_2d_polygon(b.poly.flat_corners) = -a
        ELSE /\ b.poly.basis = FirstBasis(svd)
             /\ b.poly.flat_corners = FirstFlat(b.corners, svd)

C16_KeptReached ==
    /\ wall.dim = 3
    /\ \E svd \in SvdChoices(CentredAtFirst(ctor.corners)) :
        /\ area_2d_polygon(FirstFlat(ctor.corners, svd)) > 0
        /\ wall.wall_geometry.outer_polygon.basis = FirstBasis(svd)

\* ------------------------------------- the output buffer (SpecGeometry)
\* where the segment meets the plane of the outer polygon
OuterPlanePoint == call.outer.point

\* C17: whenever PolygonWithHole::intersection returns a status other than
\* WALL_ISECT_NONE, the point left in the output buffer is the point where
\* the segment meets the outer polygon's plane; the calls on the holes never
\* leave another point there.
C17_BufferHoldsOuterPoint ==
    (IsIntersection /\ HasHoles /\ call.ret # WALL_ISECT_NONE) =>
        call.point = OuterPlanePoint

\* hole i lies in the plane of the outer polygon
HoleInOuterPlane(i) ==
    \A c \in 1..Len(ctor.holes[i]) :
        XDot(wall.wall_geometry.outer_polygon.normal,
             XSub(ctor.holes[i][c], wall.wall_geometry.outer_polygon.origin)) = 0

\* with every hole in the outer plane the buffer does hold the outer point
\* (in exact arithmetic)
C17_HoldsForHolesInPlane ==
    (/\ IsIntersection /\ HasHoles /\ call.ret # WALL_ISECT_NONE
     /\ \A i \in 1..NumHoles : HoleInOuterPlane(i)) =>
        call.point = OuterPlanePoint

\* the outer polygon's status is returned after a hole off the outer plane
\* wrote its own plane's point to the buffer
C17_HoleOverwroteReached ==
    /\ IsIntersection /\ HasHoles
    /\ call.ret = OuterStatus
    /\ call.ret # WALL_ISECT_NONE
    /\ \A i \in 1..NumHoles : HoleStatus(i) = WALL_ISECT_NONE
    /\ call.point # OuterPlanePoint

\* a hole's boundary status is returned with a point off the outer plane
C17_HoleBoundaryOffPlaneReached ==
    /\ IsIntersection /\ HasHoles
    /\ call.ret >= WALL_ISECT_VALID_BNDRY
    /\ OuterStatus < WALL_ISECT_VALID_BNDRY
    /\ call.point # OuterPlanePoint

\* ------------------------------------ reflect and side (SpecReflectSide)
BothAsked == call.op = "side_of_reflected"

\* C18: for every wall and every point p the value reflect(p) returns is
\* the negation of side(p): +1 exactly when side is -1, -1 exactly when side
\* is +1, and 0 exactly when side is 0.
C18_ReflectNegatesSide ==
    BothAsked =>
        /\ call.reflect_ret = -call.ret
        /\ call.reflect_ret = 1 <=> call.ret = -1
        /\ call.reflect_ret = -1 <=> call.ret = 1
        /\ call.reflect_ret = 0 <=> call.ret = 0
        /\ call.d = -call.ip

\* a point behind the wall: reflect returns +1 and side -1
C18_Witness ==
    /\ BothAsked
    /\ call.reflect_ret = 1
    /\ call.ret = -1

\* a point in front of the wall: reflect returns -1 and side +1
C18_FrontReached ==
    /\ BothAsked
    /\ call.reflect_ret = -1
    /\ call.ret = 1

\* a point at distance libroom_eps from the wall: both return 0
C18_AtEpsReached ==
    /\ BothAsked
    /\ Abs(call.d) = libroom_eps
    /\ call.reflect_ret = 0
    /\ call.ret = 0

\* the distance was rounded and the two values still are opposite
C18_RoundedReached ==
    /\ BothAsked
    /\ \E i \in DOMAIN call.p : wall.origin[i] - call.p[i] # Fl(wall.origin[i] - call.p[i])
    /\ call.reflect_ret = -call.ret
    /\ call.ret # 0

====
